---- MODULE Spec2Model ----
(***************************************************************************)
(* Fleetee GPS TCP server: the per-connection protocol engine.             *)
(*                                                                         *)
(* The repository holds two versions of the socket 'data' handler:         *)
(*   "index" : src/index.js, which hands the whole buffer to the           *)
(*             third-party parser and reads parser.imei / parser.avl;      *)
(*   "part"  : src/unnamed/part_000, which frames the stream itself and    *)
(*             uses the parser for the AVL data field only.                *)
(* The variable impl says which of the two files the process runs.         *)
(*                                                                         *)
(* Bytes are integers 0..255, buffers are sequences of bytes, strings are  *)
(* sequences of character codes.  The third-party ProtocolParser is not    *)
(* part of the repository: it is modelled from the wire format of the      *)
(* specification, with an AVL record shortened to RecordSize bytes (its    *)
(* timestamp and its I/O element 239) and the CRC replaced by a 16-bit     *)
(* additive checksum.                                                      *)
(***************************************************************************)
EXTENDS Integers, Sequences, FiniteSets, TLC

\* ------------------------------------------------------------------ bounds
MaxFrames == 3          \* frames one device sends on a connection
PendingBound == 1       \* deliveries the dispatcher may have pending at a time
RecordSize == 2         \* bytes of one AVL record in the model's wire format
MultiFrames == 2        \* frames one device sends when several are connected

\* ------------------------------------------------------- program constants
ImeiFrameSize == 17     \* 2 length bytes + 15 IMEI bytes
ImeiLength == 15
AvlHeaderSize == 8      \* preamble(4) + data length(4)
CrcSize == 4
BufferLimit == 65536    \* 64 * 1024

NoImei == <<>>          \* null (and, as falsy as null, the empty string)
Conns == {1, 2}
SoloConns == {1}
SessionIds == {"a", "b"}

\* --------------------------------------------------------------- byte ops
Slice(buf, from) == SubSeq(buf, from + 1, Len(buf))

Take(buf, n) == SubSeq(buf, 1, n)

\* Buffer.readUInt16BE(off)
ReadUInt16BE(buf, off) == buf[off + 1] * 256 + buf[off + 2]

\* Buffer.readUInt32BE(off).  Values of 2^30 and more are all represented by
\* 2^30: the handlers compare the number with 0 and with buffer lengths only,
\* and no buffer is that long.
ReadUInt32BE(buf, off) ==
    IF buf[off + 1] >= 64 THEN 1073741824
    ELSE ((buf[off + 1] * 256 + buf[off + 2]) * 256 + buf[off + 3]) * 256 + buf[off + 4]

\* Buffer.alloc(4).writeUInt32BE(n, 0)
WriteUInt32BE(n) ==
    << (n \div 16777216) % 256, (n \div 65536) % 256, (n \div 256) % 256, n % 256 >>

\* Buffer.toString('ascii'): the high bit of every byte is dropped
ToAscii(buf) == [i \in 1..Len(buf) |-> buf[i] % 128]

IsDigit(ch) == ch >= 48 /\ ch <= 57

RECURSIVE SumBytes(_)
SumBytes(buf) == IF buf = <<>> THEN 0 ELSE buf[1] + SumBytes(Tail(buf))

\* the frame check sequence of the model's wire format (16 bits)
Crc16(data) == (SumBytes(data) * 3 + Len(data)) % 65536

RECURSIVE Concat(_)
Concat(ss) == IF ss = <<>> THEN <<>> ELSE ss[1] \o Concat(Tail(ss))

\* ------------------------------------------------- wire format (device side)
IMEI1 == <<51, 53, 54, 51, 48, 55, 48, 52, 50, 52, 52, 49, 48, 49, 51>>
IMEI2 == <<51, 53, 54, 51, 48, 55, 48, 52, 50, 52, 52, 49, 48, 49, 52>>
NotAnImei == <<51, 53, 54, 51, 48, 55, 48, 52, 50, 52, 52, 49, 48, 49, 65>>

LoginFrame(imei) == <<0, Len(imei)>> \o imei

\* I/O element 239 of a record on the wire: 0 when the record has none,
\* its value plus one otherwise
NoIo == 0
Io(value) == value + 1

\* a record is <<timestamp, I/O element 239>>
EncodeRecord(r) ==
    [i \in 1..RecordSize |-> IF i = 1 THEN r[1] ELSE IF i = 2 THEN r[2] ELSE 0]

DataField(codec, n1, recs, n2) ==
    <<codec, n1>> \o Concat([i \in 1..Len(recs) |-> EncodeRecord(recs[i])]) \o <<n2>>

AvlFrameOf(preamble, declared, data, crc) ==
    preamble \o WriteUInt32BE(declared) \o data \o WriteUInt32BE(crc)

AvlFrame(codec, recs) ==
    LET data == DataField(codec, Len(recs), recs, Len(recs))
    IN  AvlFrameOf(<<0, 0, 0, 0>>, Len(data), data, Crc16(data))

GoodFrames == {"L1", "L2", "A1", "A2", "A0"}
FaultyFrames ==
    {"BadLen", "Letters", "BadCrc", "BadPre", "ZeroLen", "BadCodec", "BadCount",
     "Flood"}

\* the first BufferLimit + 1 bytes of an AVL frame that declares a data field
\* of BufferLimit bytes
FloodBytes ==
    <<0, 0, 0, 0>> \o WriteUInt32BE(BufferLimit)
        \o [i \in 1..(BufferLimit + 1 - AvlHeaderSize) |-> 0]
Menu == GoodFrames \cup FaultyFrames

\* the records a frame of the menu carries
FrameContent(f) ==
    CASE f = "A1" -> << <<7, Io(1)>> >>
      [] f = "A2" -> << <<9, Io(0)>>, <<4, NoIo>>, <<6, Io(2)>> >>
      [] f \in {"BadCrc", "BadPre", "BadCodec", "BadCount"} -> << <<7, Io(1)>> >>
      [] OTHER -> <<>>

\* their timestamps
FrameRecords(f) == [i \in 1..Len(FrameContent(f)) |-> FrameContent(f)[i][1]]

FrameImei(f) == IF f = "L2" THEN IMEI2 ELSE IMEI1

FrameBytes(f) ==
    LET one == DataField(8, 1, FrameContent("BadCrc"), 1)
    IN  CASE f = "L1" -> LoginFrame(IMEI1)
          [] f = "L2" -> LoginFrame(IMEI2)
          [] f = "A1" -> AvlFrame(8, FrameContent("A1"))
          [] f = "A2" -> AvlFrame(142, FrameContent("A2"))
          [] f = "A0" -> AvlFrame(8, <<>>)
          [] f = "BadLen" -> <<0, 14>> \o Take(IMEI1, 14)
          [] f = "Letters" -> LoginFrame(NotAnImei)
          [] f = "BadCrc" ->
               AvlFrameOf(<<0, 0, 0, 0>>, Len(one), one, (Crc16(one) + 1) % 65536)
          [] f = "BadPre" -> AvlFrameOf(<<0, 0, 1, 0>>, Len(one), one, Crc16(one))
          [] f = "ZeroLen" -> AvlFrameOf(<<0, 0, 0, 0>>, 0, <<>>, 0)
          [] f = "BadCodec" ->
               LET d == DataField(9, 1, FrameContent("BadCodec"), 1)
               IN  AvlFrameOf(<<0, 0, 0, 0>>, Len(d), d, Crc16(d))
          [] f = "BadCount" ->
               LET d == DataField(8, 1, FrameContent("BadCount"), 2)
               IN  AvlFrameOf(<<0, 0, 0, 0>>, Len(d), d, Crc16(d))
          [] f = "Flood" -> FloodBytes

IsLogin(f) == f \in {"L1", "L2"}
IsAvl(f) == f \in {"A1", "A2", "A0"}

Stream(fs) == Concat([i \in 1..Len(fs) |-> FrameBytes(fs[i])])

\* offset in Stream(fs) at which frame i starts
FrameStart(fs, i) == Len(Stream(Take(fs, i - 1)))

FrameEnd(fs, i) == Len(Stream(Take(fs, i)))

\* A device follows the protocol when it logs in first (with its own IMEI)
\* and sends well-formed AVL frames afterwards.  Frame i of fs deviates when
\* it is malformed, an AVL frame before the login, or a second login.
Deviates(fs, i) ==
    LET loggedIn == \E j \in 1..(i - 1) : IsLogin(fs[j])
    IN  \/ fs[i] \in FaultyFrames
        \/ IsAvl(fs[i]) /\ ~loggedIn
        \/ IsLogin(fs[i]) /\ loggedIn
        \/ fs[i] = "L2" /\ ~loggedIn

\* what the devices of the model send: at most one deviation a connection,
\* the other IMEI in a second login only;
\* a flood is the first thing a device sends, or the first after its login,
\* and the last
Sendable(fs) ==
    /\ Cardinality({i \in 1..Len(fs) : Deviates(fs, i)}) <= 1
    /\ fs # <<>> => fs[1] # "L2"
    /\ \A i \in 1..Len(fs) :
           fs[i] = "Flood" => (i = Len(fs) /\ \A j \in 1..(i - 1) : IsLogin(fs[j]))

\* ------------------------------------------------ third-party ProtocolParser
\* Decoding of the AVL frame at the start of buf (spec 4.B rule 2): the
\* parser throws on anything that is not a complete well-formed frame.
DecodeAvl(buf) ==
    LET dl    == ReadUInt32BE(buf, 4)
        total == AvlHeaderSize + dl + CrcSize
        n1    == buf[AvlHeaderSize + 2]
        wellFormed ==
            /\ Len(buf) >= AvlHeaderSize
            /\ ReadUInt32BE(buf, 0) = 0
            /\ dl >= 3
            /\ Len(buf) >= total
            /\ buf[AvlHeaderSize + 1] \in {8, 142}
            /\ dl = 3 + n1 * RecordSize
            /\ buf[AvlHeaderSize + dl] = n1
            /\ ReadUInt32BE(buf, AvlHeaderSize + dl) =
                   Crc16(SubSeq(buf, AvlHeaderSize + 1, AvlHeaderSize + dl))
    IN  IF wellFormed
        THEN [throws |-> FALSE,
              records |-> [i \in 1..n1 |->
                  LET at == AvlHeaderSize + 2 + (i - 1) * RecordSize
                  IN  [Timestamp |-> buf[at + 1],
                       Has239 |-> buf[at + 2] # NoIo,
                       Io239 |-> buf[at + 2] - 1]]]
        ELSE [throws |-> TRUE, records |-> <<>>]

\* Decoding of the login frame at the start of buf (spec 4.B rule 1)
DecodeLogin(buf) ==
    IF /\ Len(buf) >= ImeiFrameSize
       /\ ReadUInt16BE(buf, 0) = ImeiLength
       /\ \A i \in 3..ImeiFrameSize : IsDigit(buf[i])
    THEN [throws |-> FALSE, imei |-> ToAscii(SubSeq(buf, 3, ImeiFrameSize))]
    ELSE [throws |-> TRUE, imei |-> NoImei]

\* new ProtocolParser(hex) as part_000 uses it: parser.Content.AVL_Datas
ParserContent(buf) == DecodeAvl(buf)

\* new ProtocolParser(hex) as index.js uses it: parser.imei, parser.avl.data
ParserImeiAvl(buf) ==
    LET l == DecodeLogin(buf)
        a == DecodeAvl(buf)
    IN  IF ~l.throws
        THEN [throws |-> FALSE, imei |-> l.imei, hasAvl |-> FALSE, data |-> <<>>]
        ELSE IF ~a.throws
        THEN [throws |-> FALSE, imei |-> NoImei, hasAvl |-> TRUE, data |-> a.records]
        ELSE [throws |-> TRUE, imei |-> NoImei, hasAvl |-> FALSE, data |-> <<>>]

\* ------------------------------------------------------------ the handlers
\* What a run of the 'data' handler works on: the registry's session object,
\* the two closure variables, and the effects it has on the outside, in order.
NewSession == [imei |-> NoImei, packetsReceived |-> 0, bytesReceived |-> 0]

\* socket.write(bytes)
Write(bytes) ==
    [t |-> "write", bytes |-> bytes, imei |-> NoImei, records |-> <<>>, id |-> 0]

\* setImmediate(async () => { await forwardToFleetee(imei, records); })
Sched(imei, records) ==
    [t |-> "sched", bytes |-> <<>>, imei |-> imei, records |-> records, id |-> 0]

\* socket.destroy()
Destroy ==
    [t |-> "destroy", bytes |-> <<>>, imei |-> NoImei, records |-> <<>>, id |-> 0]

\* a map that hands the records over last first
\* part_000: Elements?.[239] === 1 ? true : (Elements?.[239] === 0 ? false : null)
IgnitionPart(record) ==
    IF record.Has239 /\ record.Io239 = 1 THEN "true"
    ELSE IF record.Has239 /\ record.Io239 = 0 THEN "false"
    ELSE "null"

\* index.js: ioElements?.find(io => io.id === 239)?.value === 1 ? true : null
IgnitionIndex(record) ==
    IF record.Has239 /\ record.Io239 = 1 THEN "true" ELSE "null"

NormalizePartReversed(raw) ==
    [i \in 1..Len(raw) |->
        [timestamp |-> raw[Len(raw) + 1 - i].Timestamp,
         ignition |-> IgnitionPart(raw[Len(raw) + 1 - i])]]

\* records.map(...) of part_000
NormalizePart(raw) ==
    [i \in 1..Len(raw) |->
        [timestamp |-> raw[i].Timestamp, ignition |-> IgnitionPart(raw[i])]]

\* records.map(...) of index.js: record.timestampMs || Date.now()
NormalizeIndex(raw) ==
    [i \in 1..Len(raw) |->
        [timestamp |-> IF raw[i].Timestamp = 0 THEN -1 ELSE raw[i].Timestamp,
         ignition |-> IgnitionIndex(raw[i])]]

\* a login that leaves the last byte of the frame in the buffer
AuthenticatePartShort(x) ==
    LET imeiString == ToAscii(SubSeq(x.dataBuffer, 3, ImeiFrameSize))
    IN  [x EXCEPT !.session.imei = imeiString,
                  !.authenticatedIMEI = imeiString,
                  !.session.packetsReceived = @ + 1,
                  !.effects = Append(@, Write(<<1>>)),
                  !.dataBuffer = Slice(@, ImeiFrameSize - 1)]

\* part_000, IMEI branch of the framing loop
AuthenticatePart(x) ==
    LET imeiString == ToAscii(SubSeq(x.dataBuffer, 3, ImeiFrameSize))
    IN  [x EXCEPT !.session.imei = imeiString,
                  !.authenticatedIMEI = imeiString,
                  !.session.packetsReceived = @ + 1,
                  !.effects = Append(@, Write(<<1>>)),
                  !.dataBuffer = Slice(@, ImeiFrameSize)]

\* an AVL packet acknowledged before its batch is handed to the dispatcher
AvlPartAckFirst(x, totalPacketSize) ==
    LET parser == ParserContent(x.dataBuffer)
    IN  IF ~parser.throws /\ Len(parser.records) > 0
        THEN [x EXCEPT
                !.effects = @ \o << Write(WriteUInt32BE(Len(parser.records))),
                                    Sched(x.authenticatedIMEI, NormalizePart(parser.records)) >>,
                !.session.packetsReceived = @ + 1,
                !.dataBuffer = Slice(@, totalPacketSize)]
        ELSE [x EXCEPT !.dataBuffer = Slice(@, totalPacketSize)]

\* part_000, a complete AVL packet: parse, forward, acknowledge, consume
AvlPart(x, totalPacketSize) ==
    LET parser == ParserContent(x.dataBuffer)
    IN  IF ~parser.throws /\ Len(parser.records) > 0
        THEN [x EXCEPT
                !.effects = @ \o << Sched(x.authenticatedIMEI, NormalizePart(parser.records)),
                                    Write(WriteUInt32BE(Len(parser.records))) >>,
                !.session.packetsReceived = @ + 1,
                !.dataBuffer = Slice(@, totalPacketSize)]
        ELSE [x EXCEPT !.dataBuffer = Slice(@, totalPacketSize)]

\* the entry of an iteration of the framing loop: iters records the length
\* of the buffer each iteration of a handler run found
Enter(x) == [x EXCEPT !.iters = Append(@, Len(x.dataBuffer))]

\* a handler that takes one frame a data event: if (...) for while (...)
LoopPartOneFrame(x) ==
    LET buf == x.dataBuffer
        xi == Enter(x)
    IN  IF Len(buf) = 0 THEN x
        ELSE IF /\ x.authenticatedIMEI = NoImei
                /\ Len(buf) >= ImeiFrameSize
                /\ ReadUInt16BE(buf, 0) = ImeiLength
        THEN AuthenticatePart(xi)
        ELSE IF x.authenticatedIMEI # NoImei /\ Len(buf) >= AvlHeaderSize
        THEN IF ReadUInt32BE(buf, 0) # 0
             THEN [xi EXCEPT !.dataBuffer = <<>>]
             ELSE LET totalPacketSize == AvlHeaderSize + ReadUInt32BE(buf, 4) + CrcSize
                  IN  IF Len(buf) < totalPacketSize THEN xi
                      ELSE AvlPart(xi, totalPacketSize)
        ELSE xi

\* part_000, while (dataBuffer.length > 0) { ... }
RECURSIVE LoopPart(_)
LoopPart(x) ==
    LET buf == x.dataBuffer
        xi == Enter(x)
    IN  IF Len(buf) = 0 THEN x
        ELSE IF /\ x.authenticatedIMEI = NoImei
                /\ Len(buf) >= ImeiFrameSize
                /\ ReadUInt16BE(buf, 0) = ImeiLength
        THEN LoopPart(AuthenticatePart(xi))
        ELSE IF x.authenticatedIMEI # NoImei /\ Len(buf) >= AvlHeaderSize
        THEN IF ReadUInt32BE(buf, 0) # 0
             THEN [xi EXCEPT !.dataBuffer = <<>>]
             ELSE LET totalPacketSize == AvlHeaderSize + ReadUInt32BE(buf, 4) + CrcSize
                  IN  IF Len(buf) < totalPacketSize THEN xi
                      ELSE LoopPart(AvlPart(xi, totalPacketSize))
        ELSE xi

\* both files: the head of the 'data' handler, up to the framing loop
Received(x, chunk) ==
    [x EXCEPT !.dataBuffer = @ \o chunk,
              !.session.bytesReceived = @ + Len(chunk)]

TooLarge(x) == Len(x.dataBuffer) > BufferLimit

\* part_000, socket.on('data', ...) for a session that is in the registry
HandlePart(x, chunk) ==
    LET y == Received(x, chunk)
    IN  IF TooLarge(y) THEN [y EXCEPT !.effects = Append(@, Destroy)]
        ELSE LoopPart(y)

\* index.js, bytesConsumed of the frame the parser returned
BytesConsumedIndex(buf, parsed) ==
    IF parsed.imei # NoImei /\ ~parsed.hasAvl THEN ImeiFrameSize
    ELSE IF parsed.hasAvl
    THEN IF Len(buf) >= AvlHeaderSize
         THEN AvlHeaderSize + ReadUInt32BE(buf, 4) + CrcSize
         ELSE 0
    ELSE 0

\* a frame handler that processes AVL data whether or not an IMEI is known
FrameIndexNoGate(x, parsed) ==
    IF parsed.imei # NoImei /\ x.session.imei = NoImei
    THEN [x EXCEPT !.session.imei = parsed.imei,
                   !.authenticatedIMEI = parsed.imei,
                   !.effects = Append(@, Write(<<1>>))]
    ELSE IF parsed.hasAvl /\ Len(parsed.data) > 0
    THEN LET imei == IF x.session.imei # NoImei THEN x.session.imei
                     ELSE x.authenticatedIMEI
         IN  [x EXCEPT
                 !.effects = @ \o << Sched(imei, NormalizeIndex(parsed.data)),
                                     Write(WriteUInt32BE(Len(parsed.data))) >>]
    ELSE x

\* index.js, the frame has been removed from the buffer and counted:
\* IMEI authentication, then AVL processing
FrameIndex(x, parsed) ==
    IF parsed.imei # NoImei /\ x.session.imei = NoImei
    THEN [x EXCEPT !.session.imei = parsed.imei,
                   !.authenticatedIMEI = parsed.imei,
                   !.effects = Append(@, Write(<<1>>))]
    ELSE IF parsed.hasAvl /\ Len(parsed.data) > 0
    THEN LET imei == IF x.session.imei # NoImei THEN x.session.imei
                     ELSE x.authenticatedIMEI
         IN  IF imei = NoImei THEN x
             ELSE [x EXCEPT
                     !.effects = @ \o << Sched(imei, NormalizeIndex(parsed.data)),
                                         Write(WriteUInt32BE(Len(parsed.data))) >>]
    ELSE x

\* index.js, while (dataBuffer.length > 0) { ... }
RECURSIVE LoopIndex(_)
LoopIndex(x) ==
    LET buf == x.dataBuffer
        parsed == ParserImeiAvl(buf)
        bytesConsumed == BytesConsumedIndex(buf, parsed)
        xi == Enter(x)
    IN  IF Len(buf) = 0 THEN x
        ELSE IF parsed.throws THEN xi
        ELSE IF bytesConsumed = 0 \/ bytesConsumed > Len(buf)
        THEN [xi EXCEPT !.dataBuffer = <<>>]
        ELSE LoopIndex(FrameIndex(
                 [xi EXCEPT !.dataBuffer = Slice(@, bytesConsumed),
                            !.session.packetsReceived = @ + 1],
                 parsed))

\* index.js, socket.on('data', ...) for a session that is in the registry
HandleIndex(x, chunk) ==
    LET y == Received(x, chunk)
    IN  IF TooLarge(y) THEN [y EXCEPT !.effects = Append(@, Destroy)]
        ELSE LoopIndex(y)

Handle(which, x, chunk) ==
    IF which = "part" THEN HandlePart(x, chunk) ELSE HandleIndex(x, chunk)

Fresh == [session |-> NewSession, authenticatedIMEI |-> NoImei,
          dataBuffer |-> <<>>, effects |-> <<>>, iters |-> <<>>]

\* ------------------------------------------------------------------- state
VARIABLES
    impl,               \* which file the process runs: "index" or "part"
    proc,               \* the process: "running", "closing" (server.close()
                        \*              called) or "exited"
    idle,               \* connection -> five minutes have passed since its last
                        \*               byte (the timer of socket.setTimeout is due)
    sid,                \* connection -> its sessionId (remoteAddress:remotePort)
    status,             \* connection -> "new", "open", "ended", "errored",
                        \*               "destroyed" or "closed"
    activeSessions,     \* sessionId -> [present, session]
    authenticatedIMEI,  \* connection -> closure variable
    dataBuffer,         \* connection -> closure variable
    out,                \* connection -> what the server did to the socket and
                        \*               the dispatcher, in order
    frames,             \* connection -> the frames the device has sent so far
    wire,               \* connection -> their bytes not yet given to the handler
    delivered,          \* connection -> bytes of them the handler has been given
    immediateQ,         \* setImmediate callbacks not yet run, in order
    nextBatch,          \* number of batches scheduled so far
    posted,             \* the POST requests made to the sink, in order
    inflight,           \* batch ids whose POST has not settled
    settled             \* the results forwardToFleetee returned, by batch id

vars == << impl, proc, idle, sid, status, activeSessions, authenticatedIMEI, dataBuffer, out,
           frames, wire, delivered, immediateQ, nextBatch, posted, inflight, settled >>

Absent == [present |-> FALSE, session |-> NewSession]

Sent(c) == Take(Stream(frames[c]), delivered[c])
Pending(c) == wire[c]

Init ==
    /\ impl \in {"index", "part"}
    /\ proc = "running"
    /\ idle = [c \in Conns |-> FALSE]
    /\ sid = [c \in Conns |-> IF c = 1 THEN "a" ELSE "b"]
    /\ status = [c \in Conns |-> "new"]
    /\ activeSessions = [s \in SessionIds |-> Absent]
    /\ authenticatedIMEI = [c \in Conns |-> NoImei]
    /\ dataBuffer = [c \in Conns |-> <<>>]
    /\ out = [c \in Conns |-> <<>>]
    /\ frames = [c \in Conns |-> <<>>]
    /\ wire = [c \in Conns |-> <<>>]
    /\ delivered = [c \in Conns |-> 0]
    /\ immediateQ = <<>>
    /\ nextBatch = 0
    /\ posted = <<>>
    /\ inflight = {}
    /\ settled = {}

\* ----------------------------------------------------------------- actions
NumScheds(effs) == Cardinality({i \in 1..Len(effs) : effs[i].t = "sched"})

\* the effects of one handler run, its batches numbered from base + 1
Stamp(effs, base) ==
    [i \in 1..Len(effs) |->
        IF effs[i].t = "sched"
        THEN [effs[i] EXCEPT !.id = base + NumScheds(Take(effs, i))]
        ELSE effs[i]]

Callbacks(c, effs) ==
    LET ss == SelectSeq(effs, LAMBDA e : e.t = "sched")
    IN  [i \in 1..Len(ss) |->
            [id |-> ss[i].id, conn |-> c, imei |-> ss[i].imei, records |-> ss[i].records]]

\* net.createServer(handleGpsConnection): a device connects
handleGpsConnection(c) ==
    /\ proc = "running"
    /\ status[c] = "new"
    /\ status' = [status EXCEPT ![c] = "open"]
    /\ activeSessions' = [activeSessions EXCEPT ![sid[c]] =
                              [present |-> TRUE, session |-> NewSession]]
    /\ authenticatedIMEI' = [authenticatedIMEI EXCEPT ![c] = NoImei]
    /\ dataBuffer' = [dataBuffer EXCEPT ![c] = <<>>]
    /\ UNCHANGED << impl, proc, idle, sid, out, frames, wire, delivered, immediateQ, nextBatch,
                    posted, inflight, settled >>

\* the device writes one more frame to its end of the connection; the bytes
\* reach the socket and its idle timer starts anew
DeviceSend(c, f) ==
    /\ proc # "exited"
    /\ status[c] = "open"
    /\ Len(frames[c]) < MaxFrames
    /\ Sendable(Append(frames[c], f))
    /\ f = "Flood" => wire[c] = <<>>
    /\ frames' = [frames EXCEPT ![c] = Append(@, f)]
    /\ wire' = [wire EXCEPT ![c] = @ \o FrameBytes(f)]
    /\ idle' = [idle EXCEPT ![c] = FALSE]
    /\ UNCHANGED << impl, proc, sid, status, activeSessions, authenticatedIMEI, dataBuffer,
                    out, delivered, immediateQ, nextBatch, posted, inflight, settled >>

\* how TCP may cut the bytes on the wire: one byte, five bytes, or all of
\* them, a chunk being BufferLimit bytes at most (the stream's read size);
\* what a failed transport had read already comes as one chunk
ChunkSizes(c) ==
    IF Len(wire[c]) > BufferLimit THEN {BufferLimit}
    ELSE IF status[c] = "open"
    THEN {n \in {1, 5, Len(wire[c])} : n >= 1 /\ n <= Len(wire[c])}
    ELSE {Len(wire[c])} \ {0}

\* socket.on('data', async (chunk) => { ... }) with the next n bytes on the wire
OnData(c, n) ==
    LET chunk == Take(Pending(c), n)
        entry == activeSessions[sid[c]]
        x == [session |-> entry.session,
              authenticatedIMEI |-> authenticatedIMEI[c],
              dataBuffer |-> dataBuffer[c],
              effects |-> <<>>,
              iters |-> <<>>]
        y == Handle(impl, x, chunk)
        effs == Stamp(y.effects, nextBatch)
    IN  /\ proc # "exited"
        /\ status[c] \in {"open", "errored"}
        /\ n >= 1
        /\ n <= Len(Pending(c))
        /\ delivered' = [delivered EXCEPT ![c] = @ + n]
        /\ wire' = [wire EXCEPT ![c] = Slice(@, n)]
        /\ IF ~entry.present
           THEN UNCHANGED << status, activeSessions, authenticatedIMEI, dataBuffer,
                             out, immediateQ, nextBatch >>
           ELSE /\ activeSessions' = [activeSessions EXCEPT ![sid[c]].session = y.session]
                /\ authenticatedIMEI' = [authenticatedIMEI EXCEPT ![c] = y.authenticatedIMEI]
                /\ dataBuffer' = [dataBuffer EXCEPT ![c] = y.dataBuffer]
                /\ out' = [out EXCEPT ![c] = @ \o effs]
                /\ immediateQ' = immediateQ \o Callbacks(c, effs)
                /\ nextBatch' = nextBatch + NumScheds(effs)
                /\ status' = IF \E i \in 1..Len(effs) : effs[i].t = "destroy"
                             THEN [status EXCEPT ![c] = "destroyed"]
                             ELSE status
        /\ UNCHANGED << impl, proc, idle, sid, frames, posted, inflight, settled >>

\* a cleanup that releases the buffer and leaves the session in the registry
cleanupKeepsSession(c) ==
    /\ activeSessions' = activeSessions
    /\ dataBuffer' = [dataBuffer EXCEPT ![c] = <<>>]

\* const cleanup = () => { ... }
cleanup(c) ==
    /\ activeSessions' = [activeSessions EXCEPT ![sid[c]] = Absent]
    /\ dataBuffer' = [dataBuffer EXCEPT ![c] = <<>>]

\* socket.on('end', cleanup): the device has closed its end
OnEnd(c) ==
    /\ proc # "exited"
    /\ status[c] = "open"
    /\ wire[c] = <<>>
    /\ cleanup(c)
    /\ status' = [status EXCEPT ![c] = "ended"]
    /\ idle' = [idle EXCEPT ![c] = FALSE]
    /\ UNCHANGED << impl, proc, sid, authenticatedIMEI, out, frames, wire, delivered, immediateQ,
                    nextBatch, posted, inflight, settled >>

\* socket.on('error', ...): the transport fails, while the device is silent
\* or between two of its frames.  Bytes of the device that the stream has
\* read already may still reach the handler afterwards.
OnError(c) ==
    /\ proc # "exited"
    /\ status[c] \in {"open", "ended"}
    /\ wire[c] = <<>> \/ dataBuffer[c] = <<>>
    /\ cleanup(c)
    /\ status' = [status EXCEPT ![c] = "errored"]
    /\ idle' = [idle EXCEPT ![c] = FALSE]
    /\ UNCHANGED << impl, proc, sid, authenticatedIMEI, out, frames, wire, delivered, immediateQ,
                    nextBatch, posted, inflight, settled >>

\* socket.setTimeout(5 * 60 * 1000): five minutes pass in which no byte of
\* the device arrives
TimePasses(c) ==
    /\ proc # "exited"
    /\ status[c] = "open"
    /\ wire[c] = <<>>
    /\ ~idle[c]
    /\ idle' = [idle EXCEPT ![c] = TRUE]
    /\ UNCHANGED << impl, proc, sid, status, activeSessions, authenticatedIMEI,
                    dataBuffer, out, frames, wire, delivered, immediateQ, nextBatch,
                    posted, inflight, settled >>

\* the device sends on, beyond the frames the model follows, before the
\* timer fires: of these bytes the model keeps that the timer starts anew
KeepAlive(c) ==
    /\ proc # "exited"
    /\ status[c] = "open"
    /\ idle[c]
    /\ idle' = [idle EXCEPT ![c] = FALSE]
    /\ UNCHANGED << impl, proc, sid, status, activeSessions, authenticatedIMEI,
                    dataBuffer, out, frames, wire, delivered, immediateQ, nextBatch,
                    posted, inflight, settled >>

\* socket.on('timeout', ...): socket.destroy(), after five minutes in which
\* no byte of the device arrived
OnTimeout(c) ==
    /\ proc # "exited"
    /\ status[c] = "open"
    /\ idle[c]
    /\ status' = [status EXCEPT ![c] = "destroyed"]
    /\ out' = [out EXCEPT ![c] = Append(@, Destroy)]
    /\ idle' = [idle EXCEPT ![c] = FALSE]
    /\ UNCHANGED << impl, proc, sid, activeSessions, authenticatedIMEI, dataBuffer, frames,
                    wire, delivered, immediateQ, nextBatch, posted, inflight, settled >>

\* socket.on('close', cleanup): the last event of a socket
OnClose(c) ==
    /\ proc # "exited"
    /\ status[c] \in {"ended", "errored", "destroyed"}
    /\ cleanup(c)
    /\ status' = [status EXCEPT ![c] = "closed"]
    /\ UNCHANGED << impl, proc, idle, sid, authenticatedIMEI, out, frames, wire, delivered, immediateQ,
                    nextBatch, posted, inflight, settled >>

\* the setImmediate callback runs: forwardToFleetee issues its fetch.
\* part_000's callback reads authenticatedIMEI when it runs, index.js's
\* passes the imei it captured.
RunImmediate ==
    /\ proc # "exited"
    /\ immediateQ # <<>>
    /\ LET cb == Head(immediateQ)
           imei == IF impl = "part" THEN authenticatedIMEI[cb.conn] ELSE cb.imei
       IN  /\ posted' = Append(posted, [id |-> cb.id, conn |-> cb.conn,
                                        imei |-> imei, records |-> cb.records])
           /\ inflight' = inflight \cup {cb.id}
    /\ immediateQ' = Tail(immediateQ)
    /\ UNCHANGED << impl, proc, idle, sid, status, activeSessions, authenticatedIMEI, dataBuffer,
                    out, frames, wire, delivered, nextBatch, settled >>

\* forwardToFleetee returns: 2xx, non-2xx, or fetch / response.json() threw
Outcomes == {"ok", "rejected", "failed"}

\* a forwardToFleetee that hands a batch the sink did not take to
\* setImmediate once more
forwardToFleeteeRetry(id, outcome) ==
    /\ proc # "exited"
    /\ id \in inflight
    /\ inflight' = inflight \ {id}
    /\ settled' = settled \cup {[id |-> id, success |-> (outcome = "ok")]}
    /\ immediateQ' =
           IF outcome = "ok" THEN immediateQ
           ELSE LET k == CHOOSE k \in 1..Len(posted) : posted[k].id = id
                IN  Append(immediateQ, posted[k])
    /\ UNCHANGED << impl, proc, idle, sid, status, activeSessions, authenticatedIMEI,
                    dataBuffer, out, frames, wire, delivered, nextBatch, posted >>

forwardToFleetee(id, outcome) ==
    /\ proc # "exited"
    /\ id \in inflight
    /\ inflight' = inflight \ {id}
    /\ settled' = settled \cup {[id |-> id, success |-> (outcome = "ok")]}
    /\ UNCHANGED << impl, proc, idle, sid, status, activeSessions, authenticatedIMEI, dataBuffer,
                    out, frames, wire, delivered, immediateQ, nextBatch, posted >>

\* process.on('SIGTERM' / 'SIGINT'): server.close(...) stops the listening
\* socket; the connections that are open stay as they are
Shutdown ==
    /\ proc = "running"
    /\ proc' = "closing"
    /\ UNCHANGED << impl, idle, sid, status, activeSessions, authenticatedIMEI, dataBuffer,
                    out, frames, wire, delivered, immediateQ, nextBatch, posted,
                    inflight, settled >>

\* the callback of server.close(): runs once no connection is left, and
\* calls process.exit(0)
processExit ==
    /\ proc = "closing"
    /\ \A c \in Conns : status[c] \in {"new", "closed"}
    /\ proc' = "exited"
    /\ UNCHANGED << impl, idle, sid, status, activeSessions, authenticatedIMEI, dataBuffer,
                    out, frames, wire, delivered, immediateQ, nextBatch, posted,
                    inflight, settled >>

Next ==
    \/ \E c \in SoloConns : handleGpsConnection(c)
    \/ \E c \in SoloConns : \E f \in Menu : DeviceSend(c, f)
    \/ \E c \in SoloConns : \E n \in ChunkSizes(c) : OnData(c, n)
    \/ \E c \in SoloConns : OnEnd(c)
    \/ \E c \in SoloConns : OnError(c)
    \/ \E c \in SoloConns : TimePasses(c)
    \/ \E c \in SoloConns : KeepAlive(c)
    \/ \E c \in SoloConns : OnTimeout(c)
    \/ \E c \in SoloConns : OnClose(c)
    \/ RunImmediate
    \/ \E id \in inflight : \E o \in Outcomes : forwardToFleetee(id, o)

Spec == Init /\ [][Next]_vars

\* The server with the shutdown signals.  What the event loop and the clock
\* owe: a chunk that has arrived is handed to the handler, a queued
\* setImmediate callback runs, a socket that ended, failed or was destroyed
\* emits close, time passes, a timer that is due fires, and the callback of
\* server.close() runs once no connection is left.  Whether a device sends,
\* goes away or falls silent, and whether the sink answers, is not the
\* server's.
NextOrSignal ==
    \/ Next
    \/ Shutdown
    \/ processExit

LiveSpec ==
    /\ Init
    /\ [][NextOrSignal]_vars
    /\ WF_vars(\E c \in SoloConns : \E n \in ChunkSizes(c) : OnData(c, n))
    /\ WF_vars(\E c \in SoloConns : OnClose(c))
    /\ WF_vars(\E c \in SoloConns : TimePasses(c))
    /\ WF_vars(\E c \in SoloConns : OnTimeout(c))
    /\ WF_vars(RunImmediate)
    /\ WF_vars(processExit)

\* Several devices at once.  Two connections may carry the same sessionId:
\* the string is remoteAddress:remotePort of the socket (part_000:69), and
\* the server listens on 0.0.0.0, so one remote address and port can be
\* connected to two of the host's addresses, and both parts are undefined
\* for a socket whose peer is gone when the connection event runs.  Each
\* device sends up to MultiFrames frames of MultiMenu, each frame's bytes
\* arriving as one chunk.
MultiMenu == {"L1", "L2", "A1"}

\* a device of several writes a frame once its last one has been handled
MultiSend(c, f) ==
    /\ Len(frames[c]) < MultiFrames
    /\ wire[c] = <<>>
    /\ DeviceSend(c, f)

MultiInit ==
    /\ impl \in {"index", "part"}
    /\ proc = "running"
    /\ idle = [c \in Conns |-> FALSE]
    /\ sid \in {s \in [Conns -> SessionIds] : s[1] = "a"}
    /\ status = [c \in Conns |-> "new"]
    /\ activeSessions = [s \in SessionIds |-> Absent]
    /\ authenticatedIMEI = [c \in Conns |-> NoImei]
    /\ dataBuffer = [c \in Conns |-> <<>>]
    /\ out = [c \in Conns |-> <<>>]
    /\ frames = [c \in Conns |-> <<>>]
    /\ wire = [c \in Conns |-> <<>>]
    /\ delivered = [c \in Conns |-> 0]
    /\ immediateQ = <<>>
    /\ nextBatch = 0
    /\ posted = <<>>
    /\ inflight = {}
    /\ settled = {}

MultiNext ==
    \/ \E c \in Conns : handleGpsConnection(c)
    \/ \E c \in Conns : \E f \in MultiMenu : MultiSend(c, f)
    \/ \E c \in Conns : OnData(c, Len(wire[c]))
    \/ \E c \in Conns : OnEnd(c)
    \/ \E c \in Conns : OnError(c)
    \/ \E c \in Conns : TimePasses(c)
    \/ \E c \in Conns : OnTimeout(c)
    \/ \E c \in Conns : OnClose(c)
    \/ RunImmediate

MultiSpec == MultiInit /\ [][MultiNext]_vars

\* ================================================================= claims
Session(c) == activeSessions[sid[c]].session
Registered(c) == activeSessions[sid[c]].present

\* a is what is left of b after some of its first bytes were removed
IsSuffix(a, b) == Len(a) <= Len(b) /\ a = Slice(b, Len(b) - Len(a))

IsLoginAck(e) == e.t = "write" /\ e.bytes = <<1>>
IsAvlAck(e) == e.t = "write" /\ Len(e.bytes) = 4
ServerClosed(c) == \E i \in 1..Len(out[c]) : out[c][i].t = "destroy"

\* the step is a run of the 'data' handler of c on a registered session
DataStep(c) == delivered'[c] > delivered[c] /\ Registered(c)
ChunkOf(c) == Take(wire[c], delivered'[c] - delivered[c])
NewEffects(c) == Slice(out'[c], Len(out[c]))

\* ---- C1
\* C1: on a connection without IMEI, when the buffered bytes (the buffer and
\* the chunk) begin with a complete login frame (u16 15, then 15 bytes; for
\* index.js, whose parser decides what a login is, 15 digits), the
\* handler sets the session's imei and the connection's authenticatedIMEI to
\* those 15 characters, writes 0x01 first and only once, removes exactly the
\* 17 bytes of the frame from the front of the buffer before it goes on, and
\* from then on the connection keeps that IMEI.
LoginArrives(c) ==
    LET total == dataBuffer[c] \o ChunkOf(c)
    IN  /\ DataStep(c)
        /\ authenticatedIMEI[c] = NoImei
        /\ Session(c).imei = NoImei
        /\ Len(total) >= ImeiFrameSize
        /\ Take(total, 2) = <<0, ImeiLength>>
        /\ impl = "index" => \A i \in 3..ImeiFrameSize : IsDigit(total[i])

LoginAccepted(c) ==
    LET total == dataBuffer[c] \o ChunkOf(c)
        imei == SubSeq(total, 3, ImeiFrameSize)
        rest == Slice(total, ImeiFrameSize)
    IN  /\ Session(c)'.imei = imei
        /\ authenticatedIMEI'[c] = imei
        /\ Session(c)'.packetsReceived >= 1
        /\ NewEffects(c) # <<>>
        /\ IsLoginAck(NewEffects(c)[1])
        /\ \A i \in 2..Len(NewEffects(c)) : ~IsLoginAck(NewEffects(c)[i])
        /\ IsSuffix(dataBuffer'[c], rest)
        /\ Len(rest) < AvlHeaderSize => dataBuffer'[c] = rest

StaysAuthenticated(c) ==
    authenticatedIMEI[c] # NoImei =>
        /\ authenticatedIMEI'[c] = authenticatedIMEI[c]
        /\ Registered(c)' => Session(c)'.imei = authenticatedIMEI[c]

Conforms(fs) == \A i \in 1..Len(fs) : ~Deviates(fs, i)

\* the 4-byte acknowledgements written to the socket of c, in order
AvlAcks(c) ==
    LET acks == SelectSeq(out[c], IsAvlAck)
    IN  [i \in 1..Len(acks) |-> acks[i].bytes]

\* the acknowledgements the AVL frames of fs call for: one a frame, its count
ExpectedAcks(fs) ==
    LET avls == SelectSeq(fs, IsAvl)
    IN  [i \in 1..Len(avls) |-> WriteUInt32BE(Len(FrameRecords(avls[i])))]

\* C2: when a device that follows the protocol has logged in and all its
\* frames have been handled, the socket has received one 4-byte
\* acknowledgement for every AVL frame, the big-endian u32 of its record
\* count, a count of 0 included.
C2_AckEveryAvlFrame ==
    \A c \in Conns :
        (status[c] = "open" /\ wire[c] = <<>> /\ Conforms(frames[c]))
            => AvlAcks(c) = ExpectedAcks(frames[c])

\* ---- C3
Timestamps(records) == [i \in 1..Len(records) |-> records[i].timestamp]

\* how often batch id is in the dispatcher's hands (queued or posted)
Dispatched(id) ==
    Cardinality({k \in 1..Len(immediateQ) : immediateQ[k].id = id})
        + Cardinality({k \in 1..Len(posted) : posted[k].id = id})

\* AVL frames of c with at least one record that the handler has been given whole
CompleteAvlFrames(c) ==
    {j \in 1..Len(frames[c]) :
        /\ IsAvl(frames[c][j])
        /\ FrameRecords(frames[c][j]) # <<>>
        /\ FrameEnd(frames[c], j) <= delivered[c]}

AckWritten(conn, id) ==
    \E i \in 1..(Len(out[conn]) - 1) :
        /\ out[conn][i].t = "sched"
        /\ out[conn][i].id = id
        /\ IsAvlAck(out[conn][i + 1])

SinkStep == posted' # posted \/ inflight' # inflight \/ settled' # settled

\* C4: whenever a batch is queued for the dispatcher, being posted or
\* settled, its acknowledgement has already been written, after the batch
\* was scheduled; and no step of the dispatcher or the sink (the start of
\* the POST, its success, its failure) writes to a socket or closes one.
C4_AckBeforeDelivery ==
    [][/\ \A k \in 1..Len(immediateQ') :
              AckWritten(immediateQ[k].conn, immediateQ[k].id)'
       /\ \A k \in 1..Len(posted') : AckWritten(posted[k].conn, posted[k].id)'
       /\ SinkStep => (out' = out /\ status' = status)]_vars

\* the POST of an acknowledged batch failed and the connection is still open
C4_Witness ==
    \E r \in settled :
        /\ ~r.success
        /\ AckWritten(1, r.id)
        /\ status[1] = "open"

\* ---- C5 .. C9: faults
\* frame j of c is a frame of the set fault, sent after the login, and the
\* handler has been given all of it
FaultHandled(c, j, fault) ==
    /\ frames[c][j] \in fault
    /\ \E k \in 1..(j - 1) : IsLogin(frames[c][k])
    /\ FrameEnd(frames[c], j) <= delivered[c]

\* nothing that arrived from frame j on was acknowledged or forwarded
NothingSince(c, j) ==
    NumScheds(out[c]) + Len(AvlAcks(c)) <=
        2 * Cardinality({i \in CompleteAvlFrames(c) : i < j})

\* C5: once the handler of an authenticated connection has been given a
\* complete AVL frame whose CRC does not match, the server has closed the
\* connection (socket.destroy) and has neither acknowledged nor forwarded
\* anything from that frame on.
C5_BadCrcCloses ==
    \A c \in Conns : \A j \in 1..Len(frames[c]) :
        FaultHandled(c, j, {"BadCrc"}) => ServerClosed(c) /\ NothingSince(c, j)

\* C6: once the handler of an authenticated connection has been given a
\* frame with a framing fault (non-zero preamble, data length 0, unknown
\* codec, record counts that differ), the server has closed the connection
\* and nothing that arrived from that frame on is acknowledged or forwarded.
C6_FramingFaultCloses ==
    \A c \in Conns : \A j \in 1..Len(frames[c]) :
        FaultHandled(c, j, {"BadPre", "ZeroLen", "BadCodec", "BadCount"})
            => ServerClosed(c) /\ NothingSince(c, j)

\* C7: once a connection that has not logged in has received the first two
\* bytes of a login frame and they encode a length other than 15, the server
\* has closed the connection and has written no login acknowledgement.
C7_BadLoginCloses ==
    \A c \in Conns :
        (/\ frames[c] # <<>>
         /\ frames[c][1] = "BadLen"
         /\ delivered[c] >= 2
         /\ ReadUInt16BE(Sent(c), 0) # ImeiLength)
            => /\ ServerClosed(c)
               /\ \A i \in 1..Len(out[c]) : ~IsLoginAck(out[c][i])

\* C8: once a connection that has not logged in has received a whole AVL
\* frame, the server has closed the connection.
C8_AvlBeforeLoginCloses ==
    \A c \in Conns :
        (/\ frames[c] # <<>>
         /\ IsAvl(frames[c][1])
         /\ FrameEnd(frames[c], 1) <= delivered[c])
            => ServerClosed(c)

\* C9: once an authenticated connection has received a second login frame,
\* the server has closed the connection; the IMEI is still that of the first
\* login, 0x01 was written once, the second login is not counted in
\* packetsReceived and nothing after it is acknowledged or forwarded.
C9_SecondLoginCloses ==
    \A c \in Conns : \A j \in 1..Len(frames[c]) :
        FaultHandled(c, j, {"L1", "L2"}) =>
            /\ ServerClosed(c)
            /\ authenticatedIMEI[c] = FrameImei(frames[c][1])
            /\ Len(SelectSeq(out[c], IsLoginAck)) = 1
            /\ Registered(c) =>
                   Session(c).packetsReceived <=
                       1 + Cardinality({i \in CompleteAvlFrames(c) : i < j})
            /\ NothingSince(c, j)

\* ---- C10
Unstamped(effs) == [i \in 1..Len(effs) |-> [effs[i] EXCEPT !.id = 0]]

\* C10: whatever way the bytes received so far on an open connection (no
\* more of them than one chunk can hold) were cut into chunks, the socket
\* writes, scheduled batches and closures and the number of accepted frames
\* are those of the handler given the same bytes as a single chunk on a
\* fresh connection.
C10_ChunkingInvariance ==
    \A c \in Conns :
        (status[c] = "open" /\ delivered[c] > 0 /\ delivered[c] <= BufferLimit) =>
            LET whole == Handle(impl, Fresh, Sent(c))
            IN  /\ Unstamped(out[c]) = whole.effects
                /\ Session(c).packetsReceived = whole.session.packetsReceived

\* ---- C11
\* frame i of fs is one the protocol has the server turn down: malformed, an
\* AVL frame before the login, or a login after the login
Rejected(fs, i) ==
    LET loggedIn == \E j \in 1..(i - 1) : IsLogin(fs[j])
    IN  \/ fs[i] \in FaultyFrames
        \/ IsAvl(fs[i]) /\ ~loggedIn
        \/ fs[i] \in {"L1", "L2"} /\ loggedIn

\* the frames of c the handler has been given whole, up to the first one
\* that is turned down
AcceptedFrames(c) ==
    {j \in 1..Len(frames[c]) :
        /\ FrameEnd(frames[c], j) <= delivered[c]
        /\ \A k \in 1..j : ~Rejected(frames[c], k)}

\* C11: the packetsReceived of every session in the registry is the number
\* of frames (logins and AVL frames) the connection has accepted: one for
\* every accepted frame, none for a frame that was rejected, skipped,
\* ignored or that failed to parse.
C11_PacketsCountAccepted ==
    \A c \in Conns :
        Registered(c) =>
            Session(c).packetsReceived = Cardinality(AcceptedFrames(c))

\* ---- C16
IsImei(str) == Len(str) = ImeiLength /\ \A i \in 1..Len(str) : IsDigit(str[i])

\* C16: the IMEI of an authenticated connection (authenticatedIMEI, and
\* session.imei in the registry) is 15 decimal digits; a 17-byte login frame
\* of length 15 whose 15 bytes are not all digits authenticates nothing.
C16_ImeiIsDigits ==
    \A c \in Conns :
        /\ authenticatedIMEI[c] # NoImei => IsImei(authenticatedIMEI[c])
        /\ (Registered(c) /\ Session(c).imei # NoImei) => IsImei(Session(c).imei)
        /\ (frames[c] # <<>> /\ frames[c][1] = "Letters") =>
               authenticatedIMEI[c] = NoImei

\* ---- C13
Cleaned(c) == ~Registered(c) /\ dataBuffer[c] = <<>>

PostsOf(id) == Cardinality({k \in 1..Len(posted) : posted[k].id = id})

\* C14: every batch is posted at most once and is at most once in the
\* dispatcher's hands; once forwardToFleetee has returned for a batch (2xx,
\* non-2xx or a failed request) the batch is neither queued nor in flight
\* again; and the step in which it returns changes no registry entry, no
\* buffer, no IMEI, nothing written to a socket and no connection's status.
C14_NoRetry ==
    [][/\ \A id \in 1..nextBatch' : PostsOf(id)' <= 1 /\ Dispatched(id)' <= 1
       /\ \A r \in settled' :
              /\ r.id \notin inflight'
              /\ \A k \in 1..Len(immediateQ') : immediateQ'[k].id # r.id
       /\ settled' # settled =>
              /\ activeSessions' = activeSessions
              /\ dataBuffer' = dataBuffer
              /\ authenticatedIMEI' = authenticatedIMEI
              /\ out' = out
              /\ status' = status
              /\ posted' = posted]_vars

\* two batches of one connection, the sink took one and not the other,
\* each was posted once and nothing is pending
C14_Witness ==
    /\ \E r \in settled : r.success
    /\ \E r \in settled : ~r.success /\ PostsOf(r.id) = 1
    /\ immediateQ = <<>>
    /\ inflight = {}
    /\ Len(posted) = 2

\* ---- C15
\* C15: once SIGTERM or SIGINT has been received, every open device
\* connection is eventually closed and the process eventually exits with
\* code 0, devices that stay connected notwithstanding.
C15_ShutdownCompletes ==
    (proc = "closing") ~>
        (proc = "exited" /\ \A c \in Conns : status[c] \in {"new", "closed"})

\* ---- C17
\* the run of the 'data' handler that the step DataStep(c) is
HandlerRun(c) ==
    Handle(impl,
           [session |-> Session(c), authenticatedIMEI |-> authenticatedIMEI[c],
            dataBuffer |-> dataBuffer[c], effects |-> <<>>, iters |-> <<>>],
           ChunkOf(c))

\* the framing loop started again on what a handler run left behind
Resumed(y) ==
    Handle(impl, [y EXCEPT !.effects = <<>>, !.iters = <<>>], <<>>)

IgnitionOf(r) ==
    IF r[2] = Io(1) THEN "true" ELSE IF r[2] = Io(0) THEN "false" ELSE "null"

\* C19: in every scheduled batch the ignition of a record is true exactly
\* when the device sent I/O element 239 with value 1, false exactly when it
\* sent it with value 0, and null otherwise (no element 239, another value).
C19_IgnitionTriState ==
    \A c \in Conns : \A i \in 1..Len(out[c]) : \A f \in {"A1", "A2"} :
        (out[c][i].t = "sched" /\ Timestamps(out[c][i].records) = FrameRecords(f))
            => \A k \in 1..Len(FrameContent(f)) :
                   out[c][i].records[k].ignition = IgnitionOf(FrameContent(f)[k])

\* ---- C18
\* everything written to the socket of c, in order
Writes(c) ==
    LET ws == SelectSeq(out[c], LAMBDA e : e.t = "write")
    IN  [i \in 1..Len(ws) |-> ws[i].bytes]

\* the acknowledgement frame f calls for
AckOf(f) == IF IsLogin(f) THEN <<1>> ELSE WriteUInt32BE(Len(FrameRecords(f)))

\* the frames of c the handler has been given whole
NumComplete(c) ==
    Cardinality({j \in 1..Len(frames[c]) : FrameEnd(frames[c], j) <= delivered[c]})

\* C18: on an open connection whose device follows the protocol, whatever
\* the chunks were, the i-th acknowledgement written is that of the i-th
\* frame received, with that frame's own record count: one acknowledgement
\* for every frame the handler has been given whole, in the order of arrival.
C18_AcksInOrder ==
    \A c \in Conns :
        (status[c] = "open" /\ Conforms(frames[c])) =>
            Writes(c) = [i \in 1..NumComplete(c) |-> AckOf(frames[c][i])]

\* ---- C20
\* deliveries scheduled or in flight and not yet finished
PendingDeliveries == Len(immediateQ) + Cardinality(inflight)

\* C20: whatever the devices send and however slow the sink is, no more
\* than PendingBound deliveries are pending at any moment.
C20_PendingBounded == PendingDeliveries <= PendingBound

\* ---- C12
\* C12: after every step the buffer of every connection holds BufferLimit
\* bytes at most; and a chunk that would take the buffer of a connection
\* over BufferLimit has the server close that connection, and write and
\* schedule nothing.
C12_BufferBounded ==
    [][\A c \in Conns :
          /\ Len(dataBuffer'[c]) <= BufferLimit
          /\ (DataStep(c) /\ Len(dataBuffer[c]) + Len(ChunkOf(c)) > BufferLimit) =>
                 /\ status'[c] = "destroyed"
                 /\ NewEffects(c) = <<Destroy>>]_vars
\* ---- C21
\* accepted and not yet cleaned up
Live(c) == status[c] \in {"open", "destroyed"}

Entries == {s \in SessionIds : activeSessions[s].present}

\* the step is an event of connection c
EventOf(c) ==
    \/ status'[c] # status[c]
    \/ delivered'[c] # delivered[c]
    \/ frames'[c] # frames[c]
    \/ idle'[c] # idle[c]

\* C21: with several connections, whatever the order of their accept, data,
\* end, close, error and timeout events, and also when two of them have the
\* same sessionId, every connection that was accepted and is not yet cleaned
\* up has its registry entry, there are as many entries as such
\* connections, and an event of one connection leaves the registry entry,
\* the buffer and the authenticated IMEI of every other connection as they
\* were.
C21_SessionsIsolated ==
    [][/\ \A c \in Conns : Live(c)' => Registered(c)'
       /\ Cardinality(Entries') = Cardinality({c \in Conns : Live(c)'})
       /\ \A c \in Conns : \A d \in Conns \ {c} :
              EventOf(c) =>
                  /\ Live(d) => activeSessions'[sid[d]] = activeSessions[sid[d]]
                  /\ dataBuffer'[d] = dataBuffer[d]
                  /\ authenticatedIMEI'[d] = authenticatedIMEI[d]]_vars
\* ---- C22
\* the k-th thing the server did on connection c came after the 0x01 of
\* its login
AfterLoginAck(c, k) == \E j \in 1..(k - 1) : IsLoginAck(out[c][j])

====
